---- MODULE Spec2Model ----
(***************************************************************************)
(* Model of src/migrator.py: the YouTrack -> Azure DevOps migrator.         *)
(*                                                                         *)
(* Migrator.migrate_project enumerates the issues of a source project and  *)
(* drives Migrator.migrate_issue over each one, retrying an issue whenever *)
(* a json.decoder.JSONDecodeError escapes from it.  Every HTTP call of the *)
(* program is one action; the response of the remote side is the action's  *)
(* nondeterministic input.                                                  *)
(*                                                                         *)
(* Text is a sequence of tokens (tuples), a URL is a sequence of string     *)
(* parts, a timestamp is an integer.                                        *)
(***************************************************************************)
EXTENDS Integers, Sequences, FiniteSets, TLC

VARIABLES
    pc,            \* position of the single thread of control
    exc,           \* exception in flight / that ended the run
    issues,        \* migrate_project: parsed listing response (seq of ids)
    i,             \* migrate_project: index of the enumerate() loop (0 = none yet)
    handler,       \* the caller-supplied custom_field_handler
    yt_data,       \* migrate_issue: the fetched source issue
    directives,    \* migrate_issue: what custom_field_handler(fields) yields
    dk,            \* migrate_issue: number of directives consumed by the loop
    create_ops,    \* migrate_issue: operations of the creation payload
    delayed_ops,   \* migrate_issue: operations of the post-creation patch
    work_item_id,  \* migrate_issue: identifier returned by the creation call
    ci,            \* migrate_issue: index of the current comment
    text,          \* migrate_issue: text of the current comment
    ai,            \* migrate_issue: index of the current attachment
    attachment_url,        \* migrate_issue: resolved URL of the current attachment
    attachment_content,    \* migrate_issue: downloaded bytes of the current attachment
    uploaded_attachment_url, \* migrate_issue: reference returned by the upload
    calls,         \* HTTP calls issued by the current attempt, in order
    patch_status,  \* status the destination gave to the deferred-field patch
    workItems,     \* destination: workItems[k] is the source issue of item k
    uploads,       \* destination: number of attachments stored so far
    attempts,      \* per issue: number of calls of migrate_issue
    fetches,       \* per issue: number of single-issue GETs sent to the source
    migrated,      \* issues whose migrate_issue returned normally, in order
    progress,      \* lines logged by migrate_project
    waited         \* seconds spent in time.sleep by migrate_project

vars == <<pc, exc, issues, i, handler, yt_data, directives, dk, create_ops,
          delayed_ops, work_item_id, ci, text, ai, attachment_url,
          attachment_content, uploaded_attachment_url, calls, patch_status,
          workItems, uploads, attempts, fetches, migrated, progress, waited>>

-----------------------------------------------------------------------------
(* Bounds of the model *)

\* longest listing the source returns
MaxIssues == 2
\* most attempts on one issue: the destination stops failing to decode after this
MaxAttempts == 3
\* longest sequence of directives a policy yields (SpecPartition)
MaxDirectives == 3

-----------------------------------------------------------------------------
(* Values *)

None == 0

NL == <<"nl">>

NoException == [type |-> "none", issue |-> "", where |-> ""]

Exception(t, id, w) == [type |-> t, issue |-> id, where |-> w]

yt_base == "https://ryano0oceros.youtrack.cloud"

SetFieldOperation(ado_field, yt_field, set_after_creation) ==
    [ado_field |-> ado_field, yt_field |-> yt_field,
     set_after_creation |-> set_after_creation]

Attachment(name, url) == [name |-> name, url |-> url]

Comment(created, author, body, attachments) ==
    [created |-> created, author |-> author, text |-> body,
     attachments |-> attachments]

\* The issues of the source project.
YtIds == {"DEMO-1", "DEMO-2", "DEMO-3"}

\* What the source tracker holds for an issue: the body of the single-issue GET.
SourceIssue(yt_id) ==
    CASE yt_id = "DEMO-1" ->
           [summary |-> "Fix crash",
            description |-> <<<<"t", "Steps:">>, NL, <<"t", "open">>, NL, <<"t", "crash">>>>,
            created |-> 1700500,
            reporter |-> "alice",
            customFields |-> <<[name |-> "Priority", value |-> [name |-> "Critical"]]>>,
            comments |-> <<>>,
            attachments |-> <<>>]
      [] yt_id = "DEMO-2" ->
           [summary |-> "Two comments",
            description |-> <<<<"t", "body">>>>,
            created |-> 2999,
            reporter |-> "bob",
            customFields |-> <<[name |-> "Priority", value |-> [name |-> "Minor"]],
                               [name |-> "State", value |-> [name |-> "Open"]]>>,
            comments |-> <<Comment(100, "carol", <<<<"t", "first">>, NL, <<"t", "line">>>>,
                                   <<Attachment("c1.png", <<"/files/c1.png">>)>>),
                           Comment(200, "dave", <<<<"t", "second">>>>, <<>>)>>,
            attachments |-> <<Attachment("a1.png", <<"/files/a1.png">>),
                              Attachment("a2.png", <<"http", "://cdn/a2.png">>)>>]
      [] OTHER ->
           [summary |-> "Missing locators",
            description |-> <<>>,
            created |-> 1000,
            reporter |-> "erin",
            customFields |-> <<[name |-> "State", value |-> [name |-> "Open"]]>>,
            comments |-> <<Comment(1999, "frank", <<NL>>,
                                   <<Attachment("c0.txt", <<>>),
                                     Attachment("c1.txt", <<"https", "://cdn/c1.txt">>)>>)>>,
            attachments |-> <<Attachment("a0.txt", <<>>),
                              Attachment("a1.txt", <<"/files/a1.txt">>)>>]

EmptyIssue ==
    [summary |-> "", description |-> <<>>, created |-> 0, reporter |-> "",
     customFields |-> <<>>, comments |-> <<>>, attachments |-> <<>>]

-----------------------------------------------------------------------------
(* Pure helpers of the Migrator *)

_set_field(ado_field, yt_field) ==
    [op |-> "add", path |-> <<"/fields/", ado_field>>, from |-> "None",
     value |-> yt_field]

\* utcfromtimestamp(timestamp // 1000).isoformat(): whole seconds, no rounding
_format_yt_timestamp(timestamp) == timestamp \div 1000

\* {v["name"]: v["value"] for v in yt_data["customFields"]}
_build_custom_field_dict(data) ==
    LET cf == data.customFields
        names == {cf[k].name : k \in 1..Len(cf)}
        last(n) == CHOOSE k \in 1..Len(cf) :
                     /\ cf[k].name = n
                     /\ \A j \in (k+1)..Len(cf) : cf[j].name # n
    IN  [n \in names |-> cf[last(n)].value]

\* str.replace("\n", token + "\n", 1): only the first line break is rewritten
ReplaceFirst(s, token) ==
    IF \E k \in 1..Len(s) : s[k] = NL
    THEN LET k == CHOOSE n \in 1..Len(s) :
                     s[n] = NL /\ \A m \in 1..(n - 1) : s[m] # NL
         IN  SubSeq(s, 1, k - 1) \o <<token, NL>> \o SubSeq(s, k + 1, Len(s))
    ELSE s

\* str.replace("\n", token + "\n") over a token sequence
RECURSIVE Replace(_, _)
Replace(s, token) ==
    IF s = <<>> THEN <<>>
    ELSE (IF Head(s) = NL THEN <<token, NL>> ELSE <<Head(s)>>)
         \o Replace(Tail(s), token)

BR_DESCRIPTION == <<"br /">>

BR_COMMENT == <<"br/">>

\* lines 121-127: the formatted description
Description(yt_id, data) ==
    LET created == _format_yt_timestamp(data.created)
        description == <<<<"Migrated from", yt_base, yt_id,
                           "originally reported by", data.reporter, created>>>>
                       \o <<NL, NL>> \o data.description
    IN  Replace(description, BR_DESCRIPTION)

\* lines 163-170: the formatted comment, before any attachment link
CommentText(yt_id, comment) ==
    LET created == _format_yt_timestamp(comment.created)
        t == <<<<"Migrated from", yt_base, yt_id,
                 "Original comment by", comment.author, created>>>>
             \o <<NL, NL>> \o comment.text
    IN  Replace(t, BR_COMMENT)

\* line 185: the link appended to the comment text for a relocated attachment
Link(url, name) == <<"br/", "a href", url, name>>

\* lines 176 and 201 with the test of the locator left out
NoUrlNever(url) == FALSE

\* `not attachment_url`: the locator is None or empty
NoUrl(url) == url = <<>>

\* attachment_url.startswith("http")
StartsWithHttp(url) == url # <<>> /\ url[1] \in {"http", "https"}

\* lines 179-180 and 204-205: relative locators are prefixed with the source base
ResolveUrl(url) == IF StartsWithHttp(url) THEN url ELSE <<yt_base>> \o url

\* lines 281-292: the handler of the script
PriorityMapping(priority) ==
    CASE priority = "Show-stopper" -> 1
      [] priority = "Critical" -> 2
      [] priority = "Major" -> 3
      [] priority = "Normal" -> 4
      [] priority = "Minor" -> 5
      [] OTHER -> 4

custom_field_handler(fields) ==
    LET priority == IF "Priority" \in DOMAIN fields
                    THEN fields["Priority"].name ELSE ""
    IN  <<SetFieldOperation("Microsoft.VSTS.Common.Priority",
                            PriorityMapping(priority), FALSE)>>

\* A second policy a caller may supply: it also defers one directive.
deferring_handler(fields) ==
    custom_field_handler(fields)
    \o <<SetFieldOperation("Custom.Migrated", 1, TRUE)>>

Handlers == {"custom_field_handler", "deferring_handler"}

CallHandler(h, fields) ==
    IF h = "custom_field_handler" THEN custom_field_handler(fields)
    ELSE deferring_handler(fields)

\* the loop of lines 133-135 with the phase flag ignored
CustomFieldStepEager(custom_op, ops) ==
    LET op == _set_field(custom_op.ado_field, custom_op.yt_field)
    IN  [create |-> Append(ops.create, op), delayed |-> ops.delayed]

\* lines 133-135: one iteration of the loop over the yielded directives
CustomFieldStep(custom_op, ops) ==
    LET op == _set_field(custom_op.ado_field, custom_op.yt_field)
    IN  IF custom_op.set_after_creation
        THEN [create |-> ops.create, delayed |-> Append(ops.delayed, op)]
        ELSE [create |-> Append(ops.create, op), delayed |-> ops.delayed]

-----------------------------------------------------------------------------
(* The record of one HTTP call: what was sent, for which issue, and how the  *)
(* remote side answered.                                                     *)

Call(kind, yt_id, target, ref, payload, result) ==
    [kind |-> kind, issue |-> yt_id, target |-> target, ref |-> ref,
     payload |-> payload, result |-> result]

\* a line logged by migrate_issue when it skips an attachment without locator
Skip(yt_id, ref, name) ==
    [kind |-> "skip", issue |-> yt_id, target |-> None, ref |-> ref,
     payload |-> name, result |-> "logged"]

DestinationKinds == {"create", "patch", "upload", "comment", "relation"}

SourceKinds == {"list", "fetch", "download"}

yt_id == IF i \in 1..Len(issues) THEN issues[i] ELSE ""

\* the attachments the loop of a scope runs over
ScopeAttachments(scope) ==
    IF scope = "comment" THEN yt_data.comments[ci].attachments
    ELSE yt_data.attachments

Ref(scope) == IF scope = "comment" THEN <<"comment", ci, ai>> ELSE <<"issue", 0, ai>>

LoopPc(scope) == IF scope = "comment" THEN "c_att" ELSE "attachments"

DownloadPc(scope) == IF scope = "comment" THEN "c_download" ELSE "a_download"

UploadPc(scope) == IF scope = "comment" THEN "c_upload" ELSE "a_upload"

Scopes == {"comment", "issue"}

\* the attempts of the run that ended in a decode failure so far: each left
\* the single-field line of line 259 in the log
DecodeFailures == Cardinality({k \in 1..Len(progress) : Len(progress[k]) = 1})

\* Responses come with an undecodable body only a bounded number of times in
\* a run, so that an issue sees at most MaxAttempts attempts.
MayFailToDecode == DecodeFailures < MaxAttempts - 1

\* listings the source may return: distinct ids, at most MaxIssues of them
RECURSIVE Listings(_)
Listings(n) ==
    IF n = 0 THEN {<<>>}
    ELSE LET shorter == Listings(n - 1)
         IN  shorter \cup
             {Append(l, id) : l \in {s \in shorter : Len(s) = n - 1},
                              id \in YtIds} 

Distinct(l) == \A a, b \in 1..Len(l) : a # b => l[a] # l[b]

ListingResponses == {l \in Listings(MaxIssues) : Distinct(l)}

projectVars == <<issues, i, handler, migrated, progress, waited, attempts>>

fieldVars == <<yt_data, directives, dk, create_ops, delayed_ops>>

commentVars == <<ci, text>>

attachmentVars == <<ai, attachment_url, attachment_content, uploaded_attachment_url>>

destinationVars == <<workItems, uploads>>

-----------------------------------------------------------------------------
(* Initial state: a Migrator was constructed, migrate_project not yet called *)

Locals ==
    /\ yt_data = EmptyIssue
    /\ directives = <<>>
    /\ dk = 0
    /\ create_ops = <<>>
    /\ delayed_ops = <<>>
    /\ work_item_id = None
    /\ ci = 0
    /\ text = <<>>
    /\ ai = 0
    /\ attachment_url = <<>>
    /\ attachment_content = <<>>
    /\ uploaded_attachment_url = <<>>
    /\ patch_status = None

Init ==
    /\ pc = "start"
    /\ exc = NoException
    /\ issues = <<>>
    /\ i = 0
    /\ handler \in Handlers
    /\ Locals
    /\ calls = <<>>
    /\ workItems = <<>>
    /\ uploads = 0
    /\ attempts = [id \in YtIds |-> 0]
    /\ fetches = [id \in YtIds |-> 0]
    /\ migrated = <<>>
    /\ progress = <<>>
    /\ waited = 0

-----------------------------------------------------------------------------
(* migrate_project *)

\* line 248 with only server errors taken as failures
ListingFailedServerOnly(status) == status >= 500

\* `response.status_code != 200` of line 248
ListingFailed(status) == status # 200

\* lines 240-250: the enumeration call
ListIssues ==
    /\ pc = "start"
    /\ \E status \in {200, 404, 500}, parses \in BOOLEAN, listing \in ListingResponses :
         /\ calls' = Append(calls, Call("list", "", None, <<>>, <<>>, status))
         /\ IF ListingFailed(status)
            THEN /\ exc' = Exception("RuntimeError", "", "Failed to fetch issues")
                 /\ pc' = "failed"
                 /\ issues' = issues
            ELSE IF ~parses
            THEN /\ exc' = Exception("JSONDecodeError", "", "list")
                 /\ pc' = "failed"
                 /\ issues' = issues
            ELSE /\ issues' = listing
                 /\ pc' = "loop"
                 /\ exc' = exc
    /\ UNCHANGED <<i, handler, migrated, progress, waited, attempts, fetches,
                   fieldVars, work_item_id, commentVars, attachmentVars,
                   patch_status, destinationVars>>

\* lines 251-253 with the loop ending one issue early
NextIssueStopsEarly ==
    /\ pc = "loop"
    /\ IF i + 1 < Len(issues)
       THEN /\ i' = i + 1
            /\ progress' = Append(progress,
                                  <<"Migrating", issues[i + 1], i + 1, Len(issues)>>)
            /\ pc' = "try"
       ELSE /\ pc' = "done"
            /\ UNCHANGED <<i, progress>>
    /\ UNCHANGED <<exc, issues, handler, migrated, waited, attempts, fetches,
                   fieldVars, work_item_id, commentVars, attachmentVars, calls,
                   patch_status, destinationVars>>

\* lines 251-253 with the zero-based index of enumerate() logged as it is
NextIssueZeroBased ==
    /\ pc = "loop"
    /\ IF i < Len(issues)
       THEN /\ i' = i + 1
            /\ progress' = Append(progress,
                                  <<"Migrating", issues[i + 1], i, Len(issues)>>)
            /\ pc' = "try"
       ELSE /\ pc' = "done"
            /\ UNCHANGED <<i, progress>>
    /\ UNCHANGED <<exc, issues, handler, migrated, waited, attempts, fetches,
                   fieldVars, work_item_id, commentVars, attachmentVars, calls,
                   patch_status, destinationVars>>

\* lines 251-253: the enumerate() loop header and the "Migrating" line
NextIssue ==
    /\ pc = "loop"
    /\ IF i < Len(issues)
       THEN /\ i' = i + 1
            /\ progress' = Append(progress,
                                  <<"Migrating", issues[i + 1], i + 1, Len(issues)>>)
            /\ pc' = "try"
       ELSE /\ pc' = "done"
            /\ UNCHANGED <<i, progress>>
    /\ UNCHANGED <<exc, issues, handler, migrated, waited, attempts, fetches,
                   fieldVars, work_item_id, commentVars, attachmentVars, calls,
                   patch_status, destinationVars>>

\* lines 254-256 with a retry that resumes at the creation call with the
\* state the failed attempt left behind
TryMigrateIssueResume ==
    /\ pc = "try"
    /\ attempts' = [attempts EXCEPT ![yt_id] = @ + 1]
    /\ IF attempts[yt_id] = 0
       THEN /\ yt_data' = EmptyIssue
            /\ directives' = <<>>
            /\ dk' = 0
            /\ create_ops' = <<>>
            /\ delayed_ops' = <<>>
            /\ work_item_id' = None
            /\ ci' = 0
            /\ text' = <<>>
            /\ ai' = 0
            /\ attachment_url' = <<>>
            /\ attachment_content' = <<>>
            /\ uploaded_attachment_url' = <<>>
            /\ patch_status' = None
            /\ calls' = <<>>
            /\ pc' = "fetch"
       ELSE /\ ci' = 0
            /\ ai' = 0
            /\ pc' = "create"
            /\ UNCHANGED <<fieldVars, work_item_id, text, attachment_url,
                           attachment_content, uploaded_attachment_url,
                           patch_status, calls>>
    /\ UNCHANGED <<exc, issues, i, handler, migrated, progress, waited, fetches,
                   destinationVars>>

\* lines 254-256: one iteration of `while True`, entering migrate_issue with
\* fresh locals (line 114)
TryMigrateIssue ==
    /\ pc = "try"
    /\ attempts' = [attempts EXCEPT ![yt_id] = @ + 1]
    /\ yt_data' = EmptyIssue
    /\ directives' = <<>>
    /\ dk' = 0
    /\ create_ops' = <<>>
    /\ delayed_ops' = <<>>
    /\ work_item_id' = None
    /\ ci' = 0
    /\ text' = <<>>
    /\ ai' = 0
    /\ attachment_url' = <<>>
    /\ attachment_content' = <<>>
    /\ uploaded_attachment_url' = <<>>
    /\ patch_status' = None
    /\ calls' = <<>>
    /\ pc' = "fetch"
    /\ UNCHANGED <<exc, issues, i, handler, migrated, progress, waited, fetches,
                   destinationVars>>

\* line 258 written as `except Exception`
CatchesAll(e) == TRUE

\* line 258 with a cap of two attempts on the retry
CatchesTwice(e) == e.type = "JSONDecodeError" /\ attempts[e.issue] < 2

\* `except json.decoder.JSONDecodeError` of line 258
Catches(e) == e.type = "JSONDecodeError"

RetryDelay == 3

\* lines 258-260 with the failed issue given up and the next one started
ExceptRetrySkip ==
    /\ pc = "except"
    /\ Catches(exc)
    /\ progress' = Append(progress, <<"Encountered an error. Wait 3 seconds">>)
    /\ waited' = waited + RetryDelay
    /\ exc' = NoException
    /\ pc' = "loop"
    /\ UNCHANGED <<issues, i, handler, migrated, attempts, fetches, fieldVars,
                   work_item_id, commentVars, attachmentVars, calls,
                   patch_status, destinationVars>>

\* lines 258-260: log, sleep, go round the `while True` again
ExceptRetry ==
    /\ pc = "except"
    /\ Catches(exc)
    /\ progress' = Append(progress, <<"Encountered an error. Wait 3 seconds">>)
    /\ waited' = waited + RetryDelay
    /\ exc' = NoException
    /\ pc' = "try"
    /\ UNCHANGED <<issues, i, handler, migrated, attempts, fetches, fieldVars,
                   work_item_id, commentVars, attachmentVars, calls,
                   patch_status, destinationVars>>

\* any other exception leaves migrate_project
ExceptPropagate ==
    /\ pc = "except"
    /\ ~Catches(exc)
    /\ pc' = "failed"
    /\ UNCHANGED <<exc, projectVars, fetches, fieldVars, work_item_id,
                   commentVars, attachmentVars, calls, patch_status,
                   destinationVars>>

\* lines 257 and 261: migrate_issue returned, `break`, the "Migrated" line
Migrated ==
    /\ pc = "returned"
    /\ migrated' = Append(migrated, yt_id)
    /\ progress' = Append(progress, <<"Migrated", yt_id, i, Len(issues)>>)
    /\ pc' = "loop"
    /\ UNCHANGED <<exc, issues, i, handler, waited, attempts, fetches,
                   fieldVars, work_item_id, commentVars, attachmentVars, calls,
                   patch_status, destinationVars>>

-----------------------------------------------------------------------------
(* migrate_issue *)

\* an exception leaves migrate_issue and reaches the try statement of line 255
Raise(e) ==
    /\ exc' = e
    /\ pc' = "except"

\* lines 115-131: fetch the source issue, start the creation payload with the
\* title and the formatted description, call the policy
FetchIssue ==
    /\ pc = "fetch"
    /\ fetches' = [fetches EXCEPT ![yt_id] = @ + 1]
    /\ \E parses \in BOOLEAN :
         /\ ~parses => MayFailToDecode
         /\ calls' = Append(calls,
                Call("fetch", yt_id, None, <<>>, <<>>,
                     IF parses THEN "ok" ELSE "decode_error"))
         /\ IF parses
            THEN LET data == SourceIssue(yt_id)
                 IN  /\ yt_data' = data
                     /\ create_ops' =
                          <<_set_field("System.Title", data.summary),
                            _set_field("System.Description", Description(yt_id, data))>>
                     /\ directives' = CallHandler(handler, _build_custom_field_dict(data))
                     /\ delayed_ops' = <<>>
                     /\ dk' = 0
                     /\ pc' = "fields"
                     /\ exc' = exc
            ELSE /\ Raise(Exception("JSONDecodeError", yt_id, "fetch"))
                 /\ UNCHANGED fieldVars
    /\ UNCHANGED <<projectVars, work_item_id, commentVars, attachmentVars,
                   patch_status, destinationVars>>

\* lines 133-135: the loop over the directives the policy yields
CustomFieldLoop ==
    /\ pc = "fields"
    /\ IF dk < Len(directives)
       THEN LET ops == CustomFieldStep(directives[dk + 1],
                                       [create |-> create_ops, delayed |-> delayed_ops])
            IN  /\ create_ops' = ops.create
                /\ delayed_ops' = ops.delayed
                /\ dk' = dk + 1
                /\ pc' = pc
       ELSE /\ pc' = "create"
            /\ UNCHANGED <<create_ops, delayed_ops, dk>>
    /\ UNCHANGED <<exc, projectVars, fetches, yt_data, directives, work_item_id,
                   commentVars, attachmentVars, calls, patch_status,
                   destinationVars>>

\* line 146 with the check of the identifier left out
LacksIdNever(res) == FALSE

\* lines 138-148 with the identifier remembered per issue: a new item is
\* created, but the identifier first obtained for the issue is the one used
CreateWorkItemRemembered ==
    /\ pc = "create"
    /\ \E res \in {"decode_error", "no_id", "id"} :
         /\ res = "decode_error" => MayFailToDecode
         /\ calls' = Append(calls,
                Call("create", yt_id, None, <<"issue", 0, 0>>, create_ops, res))
         /\ IF res = "decode_error"
            THEN /\ exc' = Exception("JSONDecodeError", yt_id, "create")
                 /\ pc' = "except"
                 /\ UNCHANGED <<work_item_id, workItems>>
            ELSE IF res = "no_id"
            THEN /\ exc' = Exception("RuntimeError", yt_id, "migration failed")
                 /\ pc' = "except"
                 /\ UNCHANGED <<work_item_id, workItems>>
            ELSE /\ workItems' = Append(workItems, yt_id)
                 /\ work_item_id' =
                      CHOOSE k \in 1..(Len(workItems) + 1) :
                          /\ workItems'[k] = yt_id
                          /\ \A j \in 1..(k - 1) : workItems'[j] # yt_id
                 /\ pc' = "patch"
                 /\ exc' = exc
    /\ UNCHANGED <<projectVars, fetches, fieldVars, commentVars, attachmentVars,
                   patch_status, uploads>>

\* lines 138-148 with an item already created for the issue found and reused
\* instead of a new one being created
CreateWorkItemReuse ==
    /\ pc = "create"
    /\ \E res \in {"decode_error", "no_id", "id"} :
         /\ res = "decode_error" => MayFailToDecode
         /\ calls' = Append(calls,
                Call("create", yt_id, None, <<"issue", 0, 0>>, create_ops, res))
         /\ IF res = "decode_error"
            THEN /\ exc' = Exception("JSONDecodeError", yt_id, "create")
                 /\ pc' = "except"
                 /\ UNCHANGED <<work_item_id, workItems>>
            ELSE IF res = "no_id"
            THEN /\ exc' = Exception("RuntimeError", yt_id, "migration failed")
                 /\ pc' = "except"
                 /\ UNCHANGED <<work_item_id, workItems>>
            ELSE /\ IF \E k \in 1..Len(workItems) : workItems[k] = yt_id
                    THEN /\ workItems' = workItems
                         /\ work_item_id' =
                              CHOOSE k \in 1..Len(workItems) : workItems[k] = yt_id
                    ELSE /\ workItems' = Append(workItems, yt_id)
                         /\ work_item_id' = Len(workItems) + 1
                 /\ pc' = "patch"
                 /\ exc' = exc
    /\ UNCHANGED <<projectVars, fetches, fieldVars, commentVars, attachmentVars,
                   patch_status, uploads>>

\* `"id" not in res` of line 146
LacksId(res) == res = "no_id"

\* lines 138-148: the creation call
CreateWorkItem ==
    /\ pc = "create"
    /\ \E res \in {"decode_error", "no_id", "id"} :
         /\ res = "decode_error" => MayFailToDecode
         /\ calls' = Append(calls,
                Call("create", yt_id, None, <<"issue", 0, 0>>, create_ops, res))
         /\ IF res = "decode_error"
            THEN /\ Raise(Exception("JSONDecodeError", yt_id, "create"))
                 /\ UNCHANGED <<work_item_id, workItems>>
            ELSE IF LacksId(res)
            THEN /\ Raise(Exception("RuntimeError", yt_id, "migration failed"))
                 /\ UNCHANGED <<work_item_id, workItems>>
            ELSE /\ workItems' = IF res = "id" THEN Append(workItems, yt_id)
                                 ELSE workItems
                 /\ work_item_id' = IF res = "id" THEN Len(workItems) + 1 ELSE None
                 /\ pc' = "patch"
                 /\ exc' = exc
    /\ UNCHANGED <<projectVars, fetches, fieldVars, commentVars, attachmentVars,
                   patch_status, uploads>>

\* lines 152-159 followed by a raise_for_status on the response of the patch
PatchDelayedChecked ==
    /\ pc = "patch"
    /\ \E status \in {200, 400} :
         /\ calls' = Append(calls,
                Call("patch", yt_id, work_item_id, <<"issue", 0, 0>>,
                     delayed_ops, status))
         /\ patch_status' = status
         /\ IF status >= 400
            THEN /\ exc' = Exception("HTTPError", yt_id, "patch")
                 /\ pc' = "except"
            ELSE /\ pc' = "comments"
                 /\ exc' = exc
    /\ UNCHANGED <<projectVars, fetches, fieldVars, work_item_id,
                   commentVars, attachmentVars, destinationVars>>

\* lines 152-159 with the patch sent only when there is something to patch
PatchDelayedIfAny ==
    /\ pc = "patch"
    /\ IF delayed_ops # <<>>
       THEN \E status \in {200, 400} :
              /\ calls' = Append(calls,
                     Call("patch", yt_id, work_item_id, <<"issue", 0, 0>>,
                          delayed_ops, status))
              /\ patch_status' = status
       ELSE UNCHANGED <<calls, patch_status>>
    /\ pc' = "comments"
    /\ UNCHANGED <<exc, projectVars, fetches, fieldVars, work_item_id,
                   commentVars, attachmentVars, destinationVars>>

\* lines 152-159: the patch with the deferred operations; its response is
\* not looked at
PatchDelayed ==
    /\ pc = "patch"
    /\ \E status \in {200, 400} :
         /\ calls' = Append(calls,
                Call("patch", yt_id, work_item_id, <<"issue", 0, 0>>,
                     delayed_ops, status))
         /\ patch_status' = status
    /\ pc' = "comments"
    /\ UNCHANGED <<exc, projectVars, fetches, fieldVars, work_item_id,
                   commentVars, attachmentVars, destinationVars>>

\* lines 162-170 with the comments taken newest first
CommentLoopNewestFirst ==
    /\ pc = "comments"
    /\ IF ci < Len(yt_data.comments)
       THEN /\ ci' = ci + 1
            /\ text' = CommentText(yt_id,
                           yt_data.comments[Len(yt_data.comments) - ci])
            /\ pc' = "c_att"
       ELSE /\ pc' = "attachments"
            /\ UNCHANGED <<ci, text>>
    /\ ai' = 0
    /\ UNCHANGED <<exc, projectVars, fetches, fieldVars, work_item_id,
                   attachment_url, attachment_content, uploaded_attachment_url,
                   calls, patch_status, destinationVars>>

\* lines 162-170: the header of the comment loop and the formatted text
CommentLoop ==
    /\ pc = "comments"
    /\ IF ci < Len(yt_data.comments)
       THEN /\ ci' = ci + 1
            /\ text' = CommentText(yt_id, yt_data.comments[ci + 1])
            /\ pc' = "c_att"
       ELSE /\ pc' = "attachments"
            /\ UNCHANGED <<ci, text>>
    /\ ai' = 0
    /\ UNCHANGED <<exc, projectVars, fetches, fieldVars, work_item_id,
                   attachment_url, attachment_content, uploaded_attachment_url,
                   calls, patch_status, destinationVars>>

\* lines 173-181 and 198-206: the header of an attachment loop, up to the
\* resolved locator
AttachmentLoop(scope) ==
    /\ pc = LoopPc(scope)
    /\ IF ai < Len(ScopeAttachments(scope))
       THEN LET attachment == ScopeAttachments(scope)[ai + 1]
            IN  /\ ai' = ai + 1
                /\ IF NoUrl(attachment.url)
                   THEN /\ calls' = Append(calls,
                               Skip(yt_id, [Ref(scope) EXCEPT ![3] = ai + 1],
                                    attachment.name))
                        /\ pc' = pc
                        /\ UNCHANGED attachment_url
                   ELSE /\ attachment_url' = ResolveUrl(attachment.url)
                        /\ pc' = DownloadPc(scope)
                        /\ UNCHANGED calls
       ELSE /\ pc' = IF scope = "comment" THEN "c_post" ELSE "returned"
            /\ UNCHANGED <<ai, attachment_url, calls>>
    /\ UNCHANGED <<exc, projectVars, fetches, fieldVars, work_item_id,
                   commentVars, attachment_content, uploaded_attachment_url,
                   patch_status, destinationVars>>

\* line 91 left out: the status of the download is not looked at
RaisesForStatusNever(status) == FALSE

\* response.raise_for_status() of line 91
RaisesForStatus(status) == status >= 400

\* lines 85-98: _download_attachment
DownloadAttachment(scope) ==
    /\ pc = DownloadPc(scope)
    /\ \E status \in {200, 404} :
         /\ calls' = Append(calls,
                Call("download", yt_id, None, Ref(scope), attachment_url, status))
         /\ IF RaisesForStatus(status)
            THEN /\ Raise(Exception("HTTPError", yt_id, "download"))
                 /\ UNCHANGED attachment_content
            ELSE /\ attachment_content' = <<"content of", attachment_url>>
                 /\ pc' = UploadPc(scope)
                 /\ exc' = exc
    /\ UNCHANGED <<projectVars, fetches, fieldVars, work_item_id, commentVars,
                   ai, attachment_url, uploaded_attachment_url, patch_status,
                   destinationVars>>

\* lines 100-109 and 185 with the link put in front of the comment text
UploadAttachmentLinkFirst(scope) ==
    /\ pc = UploadPc(scope)
    /\ LET attachment == ScopeAttachments(scope)[ai]
       IN  \E res \in {"decode_error", "no_url", "url"} :
             /\ res = "decode_error" => MayFailToDecode
             /\ calls' = Append(calls,
                    Call("upload", yt_id, None, Ref(scope),
                         <<attachment.name, attachment_content>>, res))
             /\ IF res = "decode_error"
                THEN /\ Raise(Exception("JSONDecodeError", yt_id, "upload"))
                     /\ UNCHANGED <<uploads, uploaded_attachment_url, text>>
                ELSE IF res = "no_url"
                THEN /\ Raise(Exception("KeyError", yt_id, "upload"))
                     /\ UNCHANGED <<uploads, uploaded_attachment_url, text>>
                ELSE /\ uploads' = uploads + 1
                     /\ uploaded_attachment_url' = <<"ado attachment", uploads + 1>>
                     /\ text' = IF scope = "comment"
                                THEN <<Link(<<"ado attachment", uploads + 1>>,
                                            attachment.name)>> \o text
                                ELSE text
                     /\ pc' = IF scope = "comment" THEN "c_att" ELSE "a_patch"
                     /\ exc' = exc
    /\ UNCHANGED <<projectVars, fetches, fieldVars, work_item_id, ci, ai,
                   attachment_url, attachment_content, patch_status, workItems>>

\* lines 100-109: _upload_attachment, and what the caller does with the
\* returned reference (line 185 for a comment, line 209 for the issue)
UploadAttachment(scope) ==
    /\ pc = UploadPc(scope)
    /\ LET attachment == ScopeAttachments(scope)[ai]
       IN  \E res \in {"decode_error", "no_url", "url"} :
             /\ res = "decode_error" => MayFailToDecode
             /\ calls' = Append(calls,
                    Call("upload", yt_id, None, Ref(scope),
                         <<attachment.name, attachment_content>>, res))
             /\ IF res = "decode_error"
                THEN /\ Raise(Exception("JSONDecodeError", yt_id, "upload"))
                     /\ UNCHANGED <<uploads, uploaded_attachment_url, text>>
                ELSE IF res = "no_url"
                THEN /\ Raise(Exception("KeyError", yt_id, "upload"))
                     /\ UNCHANGED <<uploads, uploaded_attachment_url, text>>
                ELSE /\ uploads' = uploads + 1
                     /\ uploaded_attachment_url' = <<"ado attachment", uploads + 1>>
                     /\ text' = IF scope = "comment"
                                THEN Append(text, Link(<<"ado attachment", uploads + 1>>,
                                                       attachment.name))
                                ELSE text
                     /\ pc' = IF scope = "comment" THEN "c_att" ELSE "a_patch"
                     /\ exc' = exc
    /\ UNCHANGED <<projectVars, fetches, fieldVars, work_item_id, ci, ai,
                   attachment_url, attachment_content, patch_status, workItems>>

\* lines 187-195: post the comment
PostComment ==
    /\ pc = "c_post"
    /\ calls' = Append(calls,
           Call("comment", yt_id, work_item_id, <<"comment", ci, 0>>, text, "sent"))
    /\ pc' = "comments"
    /\ UNCHANGED <<exc, projectVars, fetches, fieldVars, work_item_id,
                   commentVars, attachmentVars, patch_status, destinationVars>>

\* lines 210-228: add the AttachedFile relation to the work item
AttachFile ==
    /\ pc = "a_patch"
    /\ calls' = Append(calls,
           Call("relation", yt_id, work_item_id, <<"issue", 0, ai>>,
                <<uploaded_attachment_url, yt_data.attachments[ai].name>>, "sent"))
    /\ pc' = "attachments"
    /\ UNCHANGED <<exc, projectVars, fetches, fieldVars, work_item_id,
                   commentVars, attachmentVars, patch_status, destinationVars>>

-----------------------------------------------------------------------------
(* The program *)

Next ==
    \/ ListIssues
    \/ NextIssue
    \/ TryMigrateIssue
    \/ FetchIssue
    \/ CustomFieldLoop
    \/ CreateWorkItem
    \/ PatchDelayed
    \/ CommentLoop
    \/ AttachmentLoop("comment")
    \/ DownloadAttachment("comment")
    \/ UploadAttachment("comment")
    \/ PostComment
    \/ AttachmentLoop("issue")
    \/ DownloadAttachment("issue")
    \/ UploadAttachment("issue")
    \/ AttachFile
    \/ Migrated
    \/ ExceptRetry
    \/ ExceptPropagate

Spec == Init /\ [][Next]_vars

TypeOK ==
    /\ pc \in {"start", "loop", "try", "fetch", "fields", "create", "patch",
               "comments", "c_att", "c_download", "c_upload", "c_post",
               "attachments", "a_download", "a_upload", "a_patch", "returned",
               "except", "done", "failed"}
    /\ i \in 0..Len(issues)
    /\ work_item_id \in 0..Len(workItems)

-----------------------------------------------------------------------------
(* The phase partition on its own: the loop of lines 133-135 run over every  *)
(* bounded sequence of directives a policy may yield.                        *)

DirectiveSet ==
    {SetFieldOperation(f, v, after) :
        f \in {"Microsoft.VSTS.Common.Priority", "Custom.Migrated"},
        v \in {1, 2},
        after \in BOOLEAN}

RECURSIVE DirectiveSeqs(_)
DirectiveSeqs(n) ==
    IF n = 0 THEN {<<>>}
    ELSE LET shorter == DirectiveSeqs(n - 1)
         IN  shorter \cup
             {Append(ds, d) : ds \in {s \in shorter : Len(s) = n - 1},
                              d \in DirectiveSet}

InitPartition ==
    /\ pc = "fields"
    /\ exc = NoException
    /\ issues = <<"DEMO-1">>
    /\ i = 1
    /\ handler \in Handlers
    /\ yt_data = SourceIssue("DEMO-1")
    /\ directives \in DirectiveSeqs(MaxDirectives)
    /\ dk = 0
    /\ create_ops = <<_set_field("System.Title", yt_data.summary),
                      _set_field("System.Description", Description("DEMO-1", yt_data))>>
    /\ delayed_ops = <<>>
    /\ work_item_id = None
    /\ ci = 0
    /\ text = <<>>
    /\ ai = 0
    /\ attachment_url = <<>>
    /\ attachment_content = <<>>
    /\ uploaded_attachment_url = <<>>
    /\ patch_status = None
    /\ calls = <<Call("fetch", "DEMO-1", None, <<>>, <<>>, "ok")>>
    /\ workItems = <<>>
    /\ uploads = 0
    /\ attempts = [id \in YtIds |-> IF id = "DEMO-1" THEN 1 ELSE 0]
    /\ fetches = [id \in YtIds |-> IF id = "DEMO-1" THEN 1 ELSE 0]
    /\ migrated = <<>>
    /\ progress = <<<<"Migrating", "DEMO-1", 1, 1>>>>
    /\ waited = 0

NextPartition == CustomFieldLoop

SpecPartition == InitPartition /\ [][NextPartition]_vars

-----------------------------------------------------------------------------
(* Claims *)

CallsOfKind(kinds) == SelectSeq(calls, LAMBDA c : c.kind \in kinds)

\* number of calls of the given kinds among the first n calls of the attempt
CountBefore(kinds, n) ==
    Cardinality({j \in 1..(n - 1) : calls[j].kind \in kinds})

\* C1: inside one attempt the creation call comes first and must have
\* returned an identifier before any deferred patch, comment post, attachment
\* transfer or relation patch is issued; a comment is posted only after the
\* deferred patch was submitted; an issue-level attachment is transferred or
\* attached only after every comment of the issue has been posted.
C1_StepOrder ==
    \A k \in 1..Len(calls) :
        LET c == calls[k] IN
        /\ c.kind \in {"patch", "comment", "download", "upload", "relation", "skip"}
             => \E j \in 1..(k - 1) : calls[j].kind = "create" /\ calls[j].result = "id"
        /\ c.kind = "create" => CountBefore(DestinationKinds, k) = 0
        /\ c.kind = "patch" => CountBefore({"patch", "comment", "upload", "relation"}, k) = 0
        /\ c.kind \in {"comment", "download", "upload"}
             => CountBefore({"patch"}, k) = 1
        /\ (c.kind \in {"download", "upload", "relation"} /\ c.ref[1] = "issue")
             => CountBefore({"comment"}, k) = Len(SourceIssue(c.issue).comments)

C1_Witness ==
    /\ pc = "returned"
    /\ Len(CallsOfKind({"comment"})) = 2
    /\ Len(CallsOfKind({"relation"})) = 2
    /\ Len(CallsOfKind({"upload"})) = 3

\* the names of the attachments of a list that have a locator, in order
WithLocator(attachments) == SelectSeq(attachments, LAMBDA a : ~NoUrl(a.url))

IsPrefix(s, t) == Len(s) <= Len(t) /\ \A k \in 1..Len(s) : s[k] = t[k]

\* C2: in an attempt the k-th comment post carries the k-th comment of the
\* source issue, and the k-th relation patch, directly preceded by the
\* download and the upload of the same attachment, carries the k-th
\* issue-level attachment that has a locator: both sequences follow the
\* source order without repetition, and are complete when the attempt returns.
C2_SourceOrder ==
    LET posts == CallsOfKind({"comment"})
        attached == CallsOfKind({"relation"})
        Comments(c) == SourceIssue(c.issue).comments
        Expected(c) == WithLocator(SourceIssue(c.issue).attachments)
    IN  /\ \A k \in 1..Len(posts) :
             /\ k <= Len(Comments(posts[k]))
             /\ IsPrefix(CommentText(posts[k].issue, Comments(posts[k])[k]),
                         posts[k].payload)
        /\ \A k \in 1..Len(attached) :
             /\ k <= Len(Expected(attached[k]))
             /\ attached[k].payload[2] = Expected(attached[k])[k].name
        /\ \A k \in 1..Len(calls) :
             calls[k].kind = "relation"
               => /\ k > 2
                  /\ calls[k - 1].kind = "upload" /\ calls[k - 1].ref = calls[k].ref
                  /\ calls[k - 1].payload[1] = calls[k].payload[2]
                  /\ calls[k - 2].kind = "download" /\ calls[k - 2].ref = calls[k].ref
        /\ pc = "returned"
             => /\ Len(posts) = Len(SourceIssue(yt_id).comments)
                /\ Len(attached) = Len(WithLocator(SourceIssue(yt_id).attachments))

C2_Witness ==
    /\ pc = "returned"
    /\ yt_id = "DEMO-2"
    /\ Len(CallsOfKind({"comment"})) = 2
    /\ Len(CallsOfKind({"relation"})) = 2

\* C3: when the creation response carries no identifier the attempt ends
\* there with a RuntimeError naming the issue: the creation call is the last
\* call of the attempt, so no patch, comment, upload or relation follows it.
C3_NoIdAborts ==
    \A k \in 1..Len(calls) :
        (calls[k].kind = "create" /\ calls[k].result = "no_id")
          => /\ k = Len(calls)
             /\ pc \in {"except", "failed"}
             /\ exc.type = "RuntimeError"
             /\ exc.issue = calls[k].issue
             /\ CountBefore(DestinationKinds, k) = 0
             /\ work_item_id = None

C3_Witness ==
    /\ pc = "failed"
    /\ exc = Exception("RuntimeError", "DEMO-2", "migration failed")
    /\ i = 2
    /\ Len(calls) = 2

PolicyPart(ops) == SubSeq(ops, 3, Len(ops))

Occurrences(s, x) == Cardinality({k \in 1..Len(s) : s[k] = x})

OpOf(d) == _set_field(d.ado_field, d.yt_field)

\* C4: when the loop over the yielded directives ends, the creation payload
\* holds, after title and description, exactly the operations of the
\* directives flagged pre-creation, the patch payload exactly those of the
\* directives flagged post-creation, each in yield order: every directive went
\* to one payload, none was dropped or duplicated, and an operation is found
\* in both payloads only if the policy yielded it under both phases.
C4_PhasePartition ==
    pc = "create" =>
        LET pre == SelectSeq(directives, LAMBDA d : ~d.set_after_creation)
            post == SelectSeq(directives, LAMBDA d : d.set_after_creation)
            created == PolicyPart(create_ops)
        IN  /\ Len(created) + Len(delayed_ops) = Len(directives)
            /\ Len(created) = Len(pre)
            /\ \A k \in 1..Len(pre) : created[k] = OpOf(pre[k])
            /\ Len(delayed_ops) = Len(post)
            /\ \A k \in 1..Len(post) : delayed_ops[k] = OpOf(post[k])
            /\ \A d \in DirectiveSet :
                 /\ Occurrences(created, OpOf(d))
                      = Cardinality({k \in 1..Len(pre) : OpOf(pre[k]) = OpOf(d)})
                 /\ Occurrences(delayed_ops, OpOf(d))
                      = Cardinality({k \in 1..Len(post) : OpOf(post[k]) = OpOf(d)})

C4_Witness ==
    /\ pc = "create"
    /\ Len(directives) >= 3
    /\ Len(delayed_ops) >= 1
    /\ Len(PolicyPart(create_ops)) >= 2

Range(seq) == {seq[k] : k \in 1..Len(seq)}

\* positions of migrate_issue after the source issue was fetched and parsed
AfterFetch ==
    {"fields", "create", "patch", "comments", "c_att", "c_download", "c_upload",
     "c_post", "attachments", "a_download", "a_upload", "a_patch", "returned"}

\* C5: every attempt on an issue starts from fresh per-issue state and sends
\* its own single-issue GET to the source, so the number of fetches of an
\* issue equals its number of attempts (one less only while the attempt's GET
\* is still to be sent); the data used by the attempt is what that GET
\* returned; and an issue is attempted only when every issue enumerated
\* before it has been migrated.
C5_RetryRefetches ==
    /\ \A id \in YtIds :
         fetches[id] = IF pc = "fetch" /\ id = yt_id
                       THEN attempts[id] - 1 ELSE attempts[id]
    /\ pc = "fetch" => Locals /\ calls = <<>>
    /\ pc \in AfterFetch
         => /\ yt_data = SourceIssue(yt_id)
            /\ calls[1].kind = "fetch" /\ calls[1].issue = yt_id
            /\ Len(CallsOfKind({"fetch"})) = 1
    /\ \A a, b \in 1..Len(issues) :
         (a < b /\ attempts[issues[b]] > 0) => issues[a] \in Range(migrated)

C5_Witness ==
    /\ pc = "returned"
    /\ attempts[yt_id] = 2
    /\ fetches[yt_id] = 2
    /\ waited = RetryDelay
    /\ Len(workItems) = 2
    /\ i = 1

\* C6 (the claim as stated): a failed attachment download or a malformed
\* upload response never ends the migration of the issue with an exception.
C6_AttachmentErrorSkipped ==
    \A k \in 1..Len(calls) :
        \/ (calls[k].kind = "download" /\ calls[k].result # 200)
        \/ (calls[k].kind = "upload" /\ calls[k].result = "no_url")
        => /\ pc \notin {"except", "failed"}
           /\ exc = NoException

IsLinkTo(token, name) == Len(token) = 4 /\ token[4] = name

AttachmentName(c) ==
    IF c.ref[1] = "comment"
    THEN SourceIssue(c.issue).comments[c.ref[2]].attachments[c.ref[3]].name
    ELSE SourceIssue(c.issue).attachments[c.ref[3]].name

\* what no call after a failed relocation (call k) may be: an upload or a
\* relation patch of that attachment, or a post of its comment with a link
\* to it
RefersTo(c, failed) ==
    \/ c.kind \in {"upload", "relation"} /\ c.ref = failed.ref
    \/ /\ c.kind = "comment"
       /\ failed.ref[1] = "comment"
       /\ c.ref[2] = failed.ref[2]
       /\ \E t \in 1..Len(c.payload) : IsLinkTo(c.payload[t], AttachmentName(failed))

\* C7: a download answered with a non-success status raises HTTPError and is
\* followed by no upload of that attachment; an upload response without the
\* reference URL raises KeyError; in both cases no comment link and no
\* relation patch for that attachment is sent.  Every relation patch and
\* every link of a posted comment stems from an upload of the same attempt
\* that returned a reference.
C7_NoReferenceOnFailure ==
    \A k \in 1..Len(calls) :
        LET c == calls[k] IN
        /\ (c.kind = "download" /\ c.result # 200)
             => /\ \A j \in (k + 1)..Len(calls) : ~RefersTo(calls[j], c)
                /\ pc \in {"except", "failed"} /\ exc.type = "HTTPError"
        /\ (c.kind = "upload" /\ c.result = "no_url")
             => /\ \A j \in (k + 1)..Len(calls) : ~RefersTo(calls[j], c)
                /\ pc \in {"except", "failed"} /\ exc.type = "KeyError"
        /\ c.kind = "relation"
             => \E j \in 1..(k - 1) :
                   /\ calls[j].kind = "upload" /\ calls[j].result = "url"
                   /\ calls[j].ref = c.ref
        /\ c.kind = "comment"
             => \A t \in 1..Len(c.payload) :
                   Len(c.payload[t]) = 4
                     => \E j \in 1..(k - 1) :
                           /\ calls[j].kind = "upload" /\ calls[j].result = "url"
                           /\ calls[j].ref[1] = "comment"
                           /\ calls[j].ref[2] = c.ref[2]
                           /\ calls[j].payload[1] = c.payload[t][4]

C7_Witness ==
    /\ pc = "failed"
    /\ exc.type = "HTTPError"
    /\ Len(calls) > 0
    /\ calls[Len(calls)].kind = "download"
    /\ calls[Len(calls)].ref = <<"issue", 0, 2>>
    /\ Len(CallsOfKind({"relation"})) = 1
    /\ Len(CallsOfKind({"upload"})) = 2

\* C8: when the enumeration call is answered with a status other than 200,
\* migrate_project ends with a RuntimeError and nothing else was done: no
\* issue was fetched or attempted, the destination received no call and holds
\* no item or attachment.
C8_ListingErrorFatal ==
    (Len(calls) >= 1 /\ calls[1].kind = "list" /\ calls[1].result # 200)
      => /\ pc = "failed"
         /\ exc.type = "RuntimeError"
         /\ Len(calls) = 1
         /\ issues = <<>> /\ i = 0
         /\ \A id \in YtIds : fetches[id] = 0 /\ attempts[id] = 0
         /\ workItems = <<>> /\ uploads = 0
         /\ migrated = <<>> /\ progress = <<>>

C8_Witness ==
    /\ pc = "failed"
    /\ exc = Exception("RuntimeError", "", "Failed to fetch issues")
    /\ Len(calls) = 1
    /\ calls[1].result = 404

\* C9: issues are migrated one after the other in enumeration order: the
\* migrated issues are a prefix of the listing, an issue has been attempted,
\* fetched or created at the destination only if every issue listed before it
\* has been migrated, all calls of the attempt at hand are for one issue, and
\* at most one issue is attempted but not yet migrated.
C9_Sequential ==
    /\ IsPrefix(migrated, issues)
    /\ Len(migrated) = IF pc \in {"loop", "done"} \/ i = 0 THEN i ELSE i - 1
    /\ \A b \in 1..Len(issues) :
         (\/ attempts[issues[b]] > 0
          \/ fetches[issues[b]] > 0
          \/ issues[b] \in Range(workItems))
           => /\ b <= i
              /\ b <= Len(migrated) + 1
    /\ \A k \in 1..Len(calls) :
         calls[k].kind # "list"
           => /\ calls[k].issue = calls[Len(calls)].issue
              /\ i > 0
              /\ calls[k].issue \in {issues[i], issues[IF i > 1 THEN i - 1 ELSE i]}
              /\ pc \notin {"loop", "try", "done"} => calls[k].issue = issues[i]
    /\ Cardinality({id \in YtIds : attempts[id] > 0 /\ id \notin Range(migrated)}) <= 1

C9_Witness ==
    /\ pc = "a_patch"
    /\ i = 2
    /\ Len(migrated) = 1
    /\ attempts[issues[1]] = 2
    /\ attempts[issues[2]] = 2

\* C10: a decode failure inside migrate_issue is always followed by the fixed
\* delay and a new attempt on the same issue, whatever the number of attempts
\* already made: the run never ends with a decode failure of an issue and
\* never moves to another issue while the current one keeps failing.
C10_UnboundedRetry ==
    /\ [][(pc = "except" /\ exc.type = "JSONDecodeError")
            => /\ pc' = "try"
               /\ i' = i
               /\ migrated' = migrated
               /\ waited' = waited + RetryDelay]_vars
    /\ [][pc = "try" => (pc' = "fetch" /\ i' = i
                         /\ attempts'[yt_id] = attempts[yt_id] + 1)]_vars
    /\ []((pc = "failed" /\ i > 0) => exc.type # "JSONDecodeError")

C10_Witness ==
    /\ pc = "fetch"
    /\ i = 1
    /\ attempts[yt_id] = MaxAttempts
    /\ waited = RetryDelay * (MaxAttempts - 1)
    /\ migrated = <<>>

\* the destination items created for a source issue
ItemsOf(id) == {k \in 1..Len(workItems) : workItems[k] = id}

\* C11: a decode failure is retried from the start whatever the attempt had
\* already done: an upload that fails to decode after the creation call
\* succeeded is followed by a new attempt, and every creation call that
\* returns an identifier adds a new destination item and hands out its new
\* identifier, never one of an earlier attempt; an issue has at most one item
\* per attempt.
C11_RetryCreatesAgain ==
    /\ [][(pc = "except" /\ exc.type = "JSONDecodeError" /\ exc.where = "upload")
            => (pc' = "try" /\ i' = i /\ workItems' = workItems)]_vars
    /\ [][(pc = "create" /\ pc' = "patch")
            => /\ workItems' = Append(workItems, yt_id)
               /\ work_item_id' = Len(workItems) + 1]_vars
    /\ [](\A id \in YtIds : Cardinality(ItemsOf(id)) <= attempts[id])

C11_Witness ==
    /\ pc = "done"
    /\ issues = <<"DEMO-2">>
    /\ attempts["DEMO-2"] = 2
    /\ Cardinality(ItemsOf("DEMO-2")) = 2
    /\ uploads >= 4

\* C12 (the claim as stated): an issue without comments and attachments,
\* migrated under a policy that yields only pre-creation directives, takes
\* exactly one destination call, the creation call.
C12_OnlyCreation ==
    (/\ pc = "returned"
     /\ yt_data.comments = <<>>
     /\ yt_data.attachments = <<>>
     /\ delayed_ops = <<>>)
      => /\ Len(CallsOfKind(DestinationKinds)) = 1
         /\ Len(CallsOfKind({"create"})) = 1
         /\ Len(CallsOfKind({"patch", "comment", "upload", "relation"})) = 0

\* C13: whatever status the destination gives to the deferred-field patch,
\* migrate_issue goes on to the comment loop without an exception and the
\* created item stays; an attempt whose patch was refused and that returns
\* has posted every comment and attached every issue-level attachment that
\* has a locator, to the created item, and its return moves the project run
\* on to the loop over the issues.
C13_PatchFailureNonFatal ==
    /\ [][pc = "patch"
            => /\ pc' = "comments"
               /\ exc' = NoException
               /\ workItems' = workItems
               /\ work_item_id' = work_item_id]_vars
    /\ []((pc = "returned" /\ patch_status = 400)
            => /\ Len(CallsOfKind({"comment"})) = Len(yt_data.comments)
               /\ Len(CallsOfKind({"relation"})) = Len(WithLocator(yt_data.attachments))
               /\ \A k \in 1..Len(calls) :
                    calls[k].kind \in {"comment", "relation"}
                      => /\ calls[k].target = work_item_id
                         /\ workItems[work_item_id] = yt_id
               /\ exc = NoException)
    /\ [][pc = "returned"
            => (pc' = "loop" /\ migrated' = Append(migrated, yt_id))]_vars

C13_Witness ==
    /\ pc = "try"
    /\ i = 2
    /\ migrated = <<"DEMO-2">>
    /\ patch_status = 400
    /\ Len(CallsOfKind({"comment"})) = 2
    /\ Len(CallsOfKind({"relation"})) = 2
    /\ Len(workItems) = 1

\* C14: a RuntimeError raised for the missing identifier of issue i is not
\* caught by the retry loop: it ends migrate_project, after a single creation
\* call of that attempt; every issue listed before i has been migrated and no
\* issue listed after i is ever attempted, fetched or created.
C14_MissingIdHalts ==
    /\ [][(pc = "except" /\ exc.type = "RuntimeError")
            => (pc' = "failed" /\ exc' = exc /\ attempts' = attempts)]_vars
    /\ [][pc = "failed" => FALSE]_vars
    /\ []((pc = "failed" /\ exc.type = "RuntimeError" /\ i > 0)
            => /\ exc.issue = issues[i]
               /\ calls[Len(calls)].kind = "create"
               /\ calls[Len(calls)].result = "no_id"
               /\ migrated = SubSeq(issues, 1, i - 1)
               /\ \A b \in (i + 1)..Len(issues) :
                    /\ attempts[issues[b]] = 0
                    /\ fetches[issues[b]] = 0
                    /\ ItemsOf(issues[b]) = {})

C14_Witness ==
    /\ pc = "failed"
    /\ exc.type = "RuntimeError"
    /\ i = 1
    /\ Len(issues) = 2
    /\ attempts[issues[1]] = 2
    /\ attempts[issues[2]] = 0

ProgressLines(word) == SelectSeq(progress, LAMBDA line : line[1] = word)

LastLine == progress[Len(progress)]

ErrorLine == <<"Encountered an error. Wait 3 seconds">>

\* C15 (the claim as stated): every attempt, retries included, starts right
\* after a "Migrating" report carrying identifier, index and total.
C15_ReportBeforeEachAttempt ==
    pc = "fetch" => LastLine = <<"Migrating", yt_id, i, Len(issues)>>

\* C15 (amended): progress (identifier, index, total) is reported once per
\* issue before its first attempt and once after the attempt that returns;
\* an attempt that ends in a decode failure is followed by an error line
\* without identifier, index or total, and the retry follows that line
\* without a new "Migrating" report.
C15_ReportPerIssue ==
    /\ ProgressLines("Migrating")
         = [b \in 1..i |-> <<"Migrating", issues[b], b, Len(issues)>>]
    /\ ProgressLines("Migrated")
         = [b \in 1..Len(migrated) |-> <<"Migrated", issues[b], b, Len(issues)>>]
    /\ Len(ProgressLines(ErrorLine[1])) * RetryDelay = waited
    /\ Len(progress)
         = i + Len(migrated) + Len(ProgressLines(ErrorLine[1]))
    /\ pc = "fetch"
         => LastLine = IF attempts[yt_id] = 1
                       THEN <<"Migrating", yt_id, i, Len(issues)>>
                       ELSE ErrorLine
    /\ (pc = "loop" /\ i > 0) => LastLine = <<"Migrated", yt_id, i, Len(issues)>>

C15_Witness ==
    /\ pc = "loop"
    /\ i = 2
    /\ attempts[issues[1]] = 2
    /\ attempts[issues[2]] = 2
    /\ Len(progress) = 6

\* the calls a comment's attachment loop makes from its j-th attachment on:
\* a logged skip for an attachment without locator, else download and upload
RECURSIVE ExpectedTransfers(_, _, _)
ExpectedTransfers(attachments, c, j) ==
    IF j > Len(attachments) THEN <<>>
    ELSE (IF NoUrl(attachments[j].url)
          THEN <<<<"skip", <<"comment", c, j>>, "logged">>>>
          ELSE <<<<"download", <<"comment", c, j>>, 200>>,
                 <<"upload", <<"comment", c, j>>, "url">>>>)
         \o ExpectedTransfers(attachments, c, j + 1)

\* position of the last patch or comment call before call k
PreviousPost(k) ==
    CHOOSE p \in 1..(k - 1) :
        /\ calls[p].kind \in {"patch", "comment"}
        /\ \A q \in (p + 1)..(k - 1) : calls[q].kind \notin {"patch", "comment"}

FormattedTexts ==
    {[out |-> calls[k].payload[2].value,
      body |-> SourceIssue(calls[k].issue).description,
      token |-> BR_DESCRIPTION] :
        k \in {n \in 1..Len(calls) : calls[n].kind = "create"}}
    \cup
    {[out |-> SelectSeq(calls[k].payload, LAMBDA t : Len(t) # 4),
      body |-> SourceIssue(calls[k].issue).comments[calls[k].ref[2]].text,
      token |-> BR_COMMENT] :
        k \in {n \in 1..Len(calls) : calls[n].kind = "comment"}}

IsPreamble(t) == Len(t) = 6 /\ t[1] = "Migrated from"

Without(s, token) == SelectSeq(s, LAMBDA t : t # token)

\* C17 (the claim as stated): the preamble and the two line breaks of the
\* separator are emitted as they are, and the line-break tokens are found
\* in the body only.
C17_BodyOnly ==
    \A f \in FormattedTexts :
        /\ Len(f.out) >= 3
        /\ IsPreamble(f.out[1])
        /\ f.out[2] = NL
        /\ f.out[3] = NL
        /\ Without(SubSeq(f.out, 4, Len(f.out)), f.token) = f.body

\* C17 (amended): the substitution runs over the whole assembled text: the
\* preamble comes out unchanged, the two line breaks of the separator and
\* every line break of the source text each come out as the line-break token
\* followed by the line break, and nothing else is added, dropped or moved.
C17_WholeText ==
    \A f \in FormattedTexts :
        /\ Len(f.out) >= 5
        /\ IsPreamble(f.out[1])
        /\ SubSeq(f.out, 2, 5) = <<f.token, NL, f.token, NL>>
        /\ Without(SubSeq(f.out, 6, Len(f.out)), f.token) = f.body
        /\ \A k \in 1..Len(f.out) :
             /\ f.out[k] = NL => (k > 1 /\ f.out[k - 1] = f.token)
             /\ f.out[k] = f.token => (k < Len(f.out) /\ f.out[k + 1] = NL)

C17_Witness ==
    /\ Len(CallsOfKind({"create"})) = 1
    /\ Len(CallsOfKind({"comment"})) = 2
    /\ \E f \in FormattedTexts :
         /\ f.token = BR_COMMENT
         /\ Len(f.out) = 9
         /\ f.out[7] = BR_COMMENT

\* positions of migrate_issue before the creation call has returned
BeforeCreate == {"fetch", "fields", "create"}

\* C18: the deferred patch, every comment post and every relation patch of
\* an attempt go to the item created last, which is the one this attempt's
\* creation call created for this issue; an attempt starts with no
\* identifier and with fresh locals, and the creation call hands the
\* attempt the identifier of the item it has just added.
C18_OwnIdentifier ==
    /\ [](\A k \in 1..Len(calls) :
            calls[k].kind \in {"patch", "comment", "relation"}
              => /\ calls[k].target = Len(workItems)
                 /\ calls[k].target # None
                 /\ workItems[calls[k].target] = calls[k].issue
                 /\ \E j \in 1..(k - 1) :
                      calls[j].kind = "create" /\ calls[j].result = "id")
    /\ [](pc \in BeforeCreate => work_item_id = None)
    /\ [](pc = "fetch" => Locals /\ calls = <<>>)
    /\ [][(pc = "create" /\ pc' = "patch")
            => /\ work_item_id' = Len(workItems')
               /\ work_item_id' \notin 1..Len(workItems)]_vars
    /\ [][(pc \in AfterFetch \ BeforeCreate /\ pc' \in AfterFetch)
            => work_item_id' = work_item_id]_vars

C18_Witness ==
    /\ pc = "a_patch"
    /\ i = 2
    /\ attempts[yt_id] = 2
    /\ Cardinality(ItemsOf(yt_id)) = 2
    /\ work_item_id = 3
    /\ Len(CallsOfKind({"comment"})) >= 1

-----------------------------------------------------------------------------
(* The program under fairness: the single thread always takes its next step. *)
(* Decode failures are transient: MayFailToDecode allows MaxAttempts - 1 of   *)
(* them in a run.                                                            *)

SpecFair == Init /\ [][Next]_vars /\ WF_vars(Next)

\* an error other than a decode failure inside migrate_issue ended the run
OtherError ==
    /\ pc = "failed"
    /\ \/ exc.type \in {"RuntimeError", "HTTPError", "KeyError"}
       \/ (exc.type = "JSONDecodeError" /\ i = 0)

\* C19: with transient decode failures the run always comes to an end: either
\* an error of another kind ended it, or migrate_project returned, and then
\* every enumerated issue has been migrated exactly once, in enumeration
\* order, each by the last of its attempts.
C19_TransientFailuresTerminate ==
    /\ <>(pc = "done" \/ OtherError)
    /\ [](pc = "failed" => OtherError)
    /\ [](pc = "done"
            => /\ migrated = issues
               /\ i = Len(issues)
               /\ \A b \in 1..Len(issues) :
                    /\ attempts[issues[b]] >= 1
                    /\ Cardinality({k \in 1..Len(migrated) : migrated[k] = issues[b]}) = 1
               /\ Len(ProgressLines("Migrated")) = Len(issues))
    /\ [][pc = "done" => FALSE]_vars

C19_Witness ==
    /\ pc = "done"
    /\ Len(issues) = 2
    /\ migrated = issues
    /\ attempts[issues[1]] = 2
    /\ attempts[issues[2]] = 2
    /\ waited = 2 * RetryDelay

\* the attachment of the source issue a call or a logged skip is about
AttachmentOf(c) ==
    IF c.ref[1] = "comment"
    THEN SourceIssue(c.issue).comments[c.ref[2]].attachments[c.ref[3]]
    ELSE SourceIssue(c.issue).attachments[c.ref[3]]

\* C20: an attachment without locator takes no download, no upload and no
\* relation patch, and no posted comment links to it: it is logged as
\* skipped and the loop goes on with the next attachment without an
\* exception; when the attempt returns, every attachment without locator has
\* been skipped, every other one has been downloaded and uploaded, in source
\* order, and every comment has been posted.
C20_MissingLocatorSkipped ==
    /\ [](\A k \in 1..Len(calls) :
            LET c == calls[k] IN
            /\ c.kind \in {"download", "upload", "relation"}
                 => AttachmentOf(c).url # <<>>
            /\ c.kind = "skip"
                 => /\ AttachmentOf(c).url = <<>>
                    /\ c.payload = AttachmentOf(c).name
            /\ c.kind = "comment"
                 => \A a \in Range(SourceIssue(c.issue).comments[c.ref[2]].attachments) :
                        a.url = <<>>
                          => \A t \in 1..Len(c.payload) : ~IsLinkTo(c.payload[t], a.name))
    /\ [](pc = "returned"
            => LET data == SourceIssue(yt_id)
                   all == {<<"issue", 0, a>> : a \in 1..Len(data.attachments)}
                          \cup {<<"comment", c, a>> :
                                   c \in 1..Len(data.comments), a \in 1..3}
                   refs == {r \in all :
                               r[1] = "comment" => r[3] <= Len(data.comments[r[2]].attachments)}
                   Has(kind, r) == \E k \in 1..Len(calls) :
                                       calls[k].kind = kind /\ calls[k].ref = r
                   Url(r) == IF r[1] = "comment"
                             THEN data.comments[r[2]].attachments[r[3]].url
                             ELSE data.attachments[r[3]].url
               IN  /\ \A r \in refs :
                        IF Url(r) = <<>>
                        THEN Has("skip", r) /\ ~Has("download", r) /\ ~Has("upload", r)
                        ELSE ~Has("skip", r) /\ Has("download", r) /\ Has("upload", r)
                   /\ \A r \in refs : \A q \in refs :
                        (r[1] = q[1] /\ r[2] = q[2] /\ r[3] < q[3])
                          => \A k, j \in 1..Len(calls) :
                                (calls[k].ref = r /\ calls[j].ref = q
                                 /\ calls[k].kind # "relation") => k < j
                   /\ Len(CallsOfKind({"comment"})) = Len(data.comments))
    /\ [][(pc \in {"c_att", "attachments"} /\ Len(calls') = Len(calls) + 1)
            => /\ calls'[Len(calls')].kind = "skip"
               /\ pc' = pc
               /\ exc' = exc
               /\ ai' = ai + 1]_vars

C20_Witness ==
    /\ pc = "returned"
    /\ yt_id = "DEMO-3"
    /\ Len(CallsOfKind({"skip"})) = 2
    /\ Len(CallsOfKind({"upload"})) = 2
    /\ Len(CallsOfKind({"relation"})) = 1
    /\ Len(CallsOfKind({"comment"})) = 1

====
